---- MODULE Spec2Model ----
(***************************************************************************)
(* A model of SimTK::Array_<T,X> (SimTKcommon/internal/Array.h): the three *)
(* data members of every array, the heap buffers they own with the         *)
(* constructed/unconstructed state of every slot, and one action per       *)
(* public operation, each translated statement by statement from its code. *)
(*                                                                         *)
(* The index type X is IndexTraits<unsigned> scaled down from 32 to        *)
(* env.bits bits: size_type holds 0 .. 2^bits-1, its arithmetic wraps      *)
(* modulo 2^bits, and max_size is 2^(bits-1)-1 (0x7fffffff for 32 bits).   *)
(* The element type T is a class with a copy constructor, a default        *)
(* constructor producing DefaultVal, and a destructor.                     *)
(***************************************************************************)
EXTENDS Integers, Sequences, FiniteSets, TLC

VARIABLES
    env,    \* the index type's width and the limits of the exploration
    debug,  \* TRUE: Debug build (NDEBUG not defined); FALSE: Release build
    heap,   \* heap[b]: the slots of buffer b, <<>> when b is not allocated
    arr,    \* arr[x]: the data members data, nUsed, nAllocated of array x
    last,   \* the last operation: its name, arguments, outcome and events
    appended, \* the values appended to array 1 since Array_() made it, as
              \* long as nothing but appends was done to it; <<Raw>> otherwise
    reserved, \* reserved[x] = c > 0: reserve(c) gave array x the capacity c,
              \* and no operation since has grown its size beyond c or has
              \* changed its buffer or capacity; 0 otherwise
    appendAllocs \* the number of buffers the appends of appended allocated

vars == <<env, debug, heap, arr, last, appended, reserved, appendAllocs>>

(***************************************************************************)
(* Bounds of the model.  Spec explores every operation with two element    *)
(* values on a narrow index type; SpecWide explores a wider index type,    *)
(* where the growth and shrink policies have room, with one element value. *)
(* SpecFull is Spec with an element type whose constructor may throw, the  *)
(* element accessors, and the calls whose source lies in the array itself. *)
(* SpecAccess and SpecAssign explore the accessors and the assignments on  *)
(* their own, the latter on the wider index type.                          *)
(***************************************************************************)
Bits == 3       \* width of size_type in bits (32 for unsigned)
MaxCap == 4     \* operations that would allocate more slots are not explored
MaxSrcLen == 2  \* longest external source range [first,last1)
PairCap == 2    \* two arrays are alive together only while both are this small
WideBits == 5   \* the same four bounds for SpecWide
WideCap == 10
WideSrcLen == 1
WidePairCap == 1
GrowBits == 6   \* width of size_type in SpecGrow, which appends up to max_size
MaxThrowAt == 1 \* most elements a bulk construction builds before T's
                \* constructor throws, in SpecFull

Arrays == {1, 2}
\* Buffer x is the one array x owns between operations; one more is needed
\* while an operation moves an array to a new buffer.
BufIds == Arrays \cup {Cardinality(Arrays) + 1}
DefaultVal == 1         \* the value of T()
Raw == 0                \* an allocated slot holding no constructed element

\* An element type whose constructors never throw.
NoThrow == -1

Narrow == [bits |-> Bits, cap |-> MaxCap, srclen |-> MaxSrcLen,
           paircap |-> [x \in Arrays |-> PairCap],
           vals |-> {1, 2}, fill |-> {2}, throw |-> NoThrow]
Throwing == [Narrow EXCEPT !.throw = MaxThrowAt]
Long == [bits |-> WideBits, cap |-> WideCap, srclen |-> WideSrcLen,
         paircap |-> [x \in Arrays |-> 0],
         vals |-> {1, 2}, fill |-> {2}, throw |-> NoThrow]
Grow == [bits |-> GrowBits, cap |-> 2^(GrowBits - 1) - 1, srclen |-> 0,
         paircap |-> [x \in Arrays |-> 0],
         vals |-> {DefaultVal}, fill |-> {DefaultVal}, throw |-> NoThrow]
Wide == [bits |-> WideBits, cap |-> WideCap, srclen |-> WideSrcLen,
         paircap |-> [x \in Arrays |-> IF x = 1 THEN WideCap ELSE WidePairCap],
         vals |-> {DefaultVal}, fill |-> {DefaultVal}, throw |-> NoThrow]

Vals == env.vals        \* element values
FillVals == env.fill    \* the values given to the fill operations

SizeType == 0..(2^env.bits - 1)

Min(a, b) == IF a <= b THEN a ELSE b
Max(a, b) == IF a >= b THEN a ELSE b

\* Narrowing to size_type, and the result of size_type arithmetic.
ST(n) == n % (2^env.bits)

\* IndexTraits<unsigned>::max_size
max_size == 2^(env.bits - 1) - 1

\* All sequences over S of length at most n.
SeqsUpTo(S, n) == UNION {[1..k -> S] : k \in 0..n}

(***************************************************************************)
(* The running operation's machine state m: the heap, the arrays, the      *)
(* outcome so far (res), the value being returned (ret), the pointer last  *)
(* returned by allocN (p), the value an uninitialized read produces (g),   *)
(* and what the operation did: allocations, frees, the three kinds of      *)
(* misuse of a slot, a destructor call on a slot holding no element        *)
(* (deadDtor), a free of what is no allocated buffer (badFree), and the    *)
(* elements left without a slot of a buffer, constructed outside every     *)
(* buffer or in a buffer freed under them (lost).  fuel is the number of   *)
(* elements that the bulk constructions of the operation build before the  *)
(* element type's constructor throws; NoThrow is a constructor that never  *)
(* throws.                                                                 *)
(* A thrown exception or a failed assert sets res, and every later         *)
(* statement of the operation is then skipped.                             *)
(***************************************************************************)
ThrowAt == {NoThrow} \cup (0..env.throw)

Start(g) ==
    [heap |-> heap, arr |-> arr, res |-> "ok", ret |-> 0, p |-> 0, g |-> g,
     allocs |-> 0, frees |-> 0, ctors |-> 0, dtors |-> 0,
     overwrite |-> FALSE, deadAccess |-> FALSE, oob |-> FALSE,
     garbage |-> FALSE, deadDtor |-> FALSE, badFree |-> FALSE, lost |-> 0,
     fuel |-> NoThrow]

\* The same, for an element type whose constructor throws in the bulk
\* construction after k elements.
StartT(g, k) == [Start(g) EXCEPT !.fuel = k]

Ok(m) == m.res = "ok"
Throw(m, e) == IF Ok(m) THEN [m EXCEPT !.res = e] ELSE m
Return(m, v) == IF Ok(m) THEN [m EXCEPT !.ret = v] ELSE m

\* The check macros.  The forms without _ALWAYS are compiled only in a Debug
\* build; the _ALWAYS forms in every build.
SimTK_ERRCHK(m, cond, e) == IF debug /\ ~cond THEN Throw(m, e) ELSE m
SimTK_ERRCHK_ALWAYS(m, cond, e) == IF ~cond THEN Throw(m, e) ELSE m
c_assert(m, cond) == IF debug /\ ~cond THEN Throw(m, "abort") ELSE m

SetData(m, x, b) == IF Ok(m) THEN [m EXCEPT !.arr[x].data = b] ELSE m
SetUsed(m, x, n) == IF Ok(m) THEN [m EXCEPT !.arr[x].nUsed = n] ELSE m
SetAllocated(m, x, n) == IF Ok(m) THEN [m EXCEPT !.arr[x].nAllocated = n] ELSE m

\* (b,i) is a slot of an allocated buffer.
InBuf(m, b, i) == b \in BufIds /\ i >= 0 /\ i < Len(m.heap[b])
IsLive(m, b, i) == InBuf(m, b, i) /\ m.heap[b][i + 1] # Raw

\* The lowest free buffer.
NewBuf(m) ==
    CHOOSE b \in BufIds :
        /\ m.heap[b] = <<>>
        /\ \A c \in BufIds : m.heap[c] = <<>> => b <= c

\* n slots of raw memory
RECURSIVE RawSlots(_)
RawSlots(n) == IF n = 0 THEN <<>> ELSE Append(RawSlots(n - 1), Raw)

\* static T* allocN(size_type n): the new buffer is left in m.p.
allocN(m, n) ==
    IF ~Ok(m) THEN m
    ELSE IF n = 0 THEN [m EXCEPT !.p = 0]
    ELSE LET b == NewBuf(m)
         IN [m EXCEPT !.heap[b] = RawSlots(n), !.p = b,
                      !.allocs = @ + 1]

\* static void freeN(T* p)
freeN(m, b) ==
    IF ~Ok(m) \/ b = 0 THEN m
    ELSE IF b \notin BufIds \/ m.heap[b] = <<>>
    THEN [m EXCEPT !.oob = TRUE, !.badFree = TRUE]
    ELSE [m EXCEPT !.heap[b] = <<>>, !.frees = @ + 1,
                   !.lost = @ + Cardinality({i \in 1..Len(m.heap[b]) :
                                                m.heap[b][i] # Raw})]

\* new(p) T(v) with p = slot i of buffer b
constructAt(m, b, i, v) ==
    IF ~Ok(m) THEN m
    ELSE IF ~InBuf(m, b, i)
    THEN [m EXCEPT !.oob = TRUE, !.ctors = @ + 1, !.lost = @ + 1]
    ELSE [m EXCEPT !.heap[b][i + 1] = v, !.ctors = @ + 1,
                   !.overwrite = @ \/ (m.heap[b][i + 1] # Raw)]

\* *p: the value read from slot i of buffer b
valueAt(m, b, i) == IF IsLive(m, b, i) THEN m.heap[b][i + 1] ELSE m.g

\* the read itself, which is a misuse when the slot holds no element
noteRead(m, b, i) ==
    IF ~Ok(m) THEN m
    ELSE IF ~InBuf(m, b, i) THEN [m EXCEPT !.oob = TRUE, !.garbage = TRUE]
    ELSE IF m.heap[b][i + 1] = Raw
    THEN [m EXCEPT !.deadAccess = TRUE, !.garbage = TRUE]
    ELSE m

\* static void destruct(T* p)
destruct(m, b, i) ==
    IF ~Ok(m) THEN m
    ELSE IF ~InBuf(m, b, i)
    THEN [m EXCEPT !.oob = TRUE, !.dtors = @ + 1, !.deadDtor = TRUE]
    ELSE [m EXCEPT !.heap[b][i + 1] = Raw, !.dtors = @ + 1,
                   !.deadAccess = @ \/ (m.heap[b][i + 1] = Raw),
                   !.deadDtor = @ \/ (m.heap[b][i + 1] = Raw)]

\* static void destruct(T* b, const T* e): slots [i,e) of buffer b
RECURSIVE destructRange(_, _, _, _)
destructRange(m, b, i, e) ==
    IF i >= e \/ ~Ok(m) THEN m
    ELSE destructRange(destruct(m, b, i), b, i + 1, e)

\* new(b++) T(v) in a loop over a range: T's constructor may throw, and no
\* handler of the class catches it.
newAt(m, b, i, v) ==
    IF ~Ok(m) THEN m
    ELSE IF m.fuel = 0 THEN Throw(m, "ElementCtorThrew")
    ELSE constructAt([m EXCEPT !.fuel = @ - 1], b, i, v)

\* static void defaultConstruct(T* p)
defaultConstruct(m, b, i) == constructAt(m, b, i, DefaultVal)

\* static void fillConstruct(T* b, const T* e, const T& v)
RECURSIVE fillConstruct(_, _, _, _, _)
fillConstruct(m, b, i, e, v) ==
    IF i >= e \/ ~Ok(m) THEN m
    ELSE fillConstruct(newAt(m, b, i, v), b, i + 1, e, v)

\* static void defaultConstruct(T* b, T* e)
defaultConstructRange(m, b, i, e) == fillConstruct(m, b, i, e, DefaultVal)

\* static void copyConstruct(T* b, const T* e, const T* src), the source
\* being the external sequence src read from its element k on
RECURSIVE copyConstructRange(_, _, _, _, _, _)
copyConstructRange(m, b, i, e, src, k) ==
    IF i >= e \/ ~Ok(m) THEN m
    ELSE copyConstructRange(newAt(m, b, i, src[k]), b, i + 1, e, src,
                            k + 1)

\* static void copyConstructThenDestructSource(T* b, const T* const e, T* src)
\* with [b,e) in buffer db and src at slot s of buffer sb
RECURSIVE copyConstructThenDestructSource(_, _, _, _, _, _)
copyConstructThenDestructSource(m, db, b, e, sb, s) ==
    IF b >= e \/ ~Ok(m) THEN m
    ELSE LET m1 == noteRead(m, sb, s)
             m2 == constructAt(m1, db, b, valueAt(m, sb, s))
             m3 == destruct(m2, sb, s)
         IN copyConstructThenDestructSource(m3, db, b + 1, e, sb, s + 1)

\* void moveOneElement(T* to, T* from), both in the array's buffer
moveOneElement(m, x, to, from) ==
    LET a == m.arr[x]
        m1 == c_assert(m, 0 <= to /\ to < a.nAllocated)
        m2 == c_assert(m1, 0 <= from /\ from < a.nAllocated)
        m3 == noteRead(m2, a.data, from)
        m4 == constructAt(m3, a.data, to, valueAt(m, a.data, from))
    IN destruct(m4, a.data, from)

\* void moveElementsDown(T* p, size_type n)
RECURSIVE moveElementsDownFrom(_, _, _, _)
moveElementsDownFrom(m, x, p, n) ==
    IF p >= m.arr[x].nUsed \/ ~Ok(m) THEN m
    ELSE moveElementsDownFrom(moveOneElement(m, x, p - n, p), x, p + 1, n)

moveElementsDown(m, x, p, n) ==
    moveElementsDownFrom(c_assert(m, n > 0), x, p, n)

\* void moveElementsUp(T* p, size_type n)
RECURSIVE moveElementsUpFrom(_, _, _, _, _)
moveElementsUpFrom(m, x, p, n, src) ==
    IF src <= p \/ ~Ok(m) THEN m
    ELSE moveElementsUpFrom(moveOneElement(m, x, (src - 1) + n, src - 1),
                            x, p, n, src - 1)

moveElementsUp(m, x, p, n) ==
    moveElementsUpFrom(c_assert(m, n > 0), x, p, n, m.arr[x].nUsed)

\* size_type minAlloc() const
minAlloc == Min(max_size, 4)

\* bool isSizeOK(S srcSz) const: the comparison is made in unsigned long long
isSizeOK(srcSz) == srcSz <= max_size

\* bool isGrowthOK(S n) const
isGrowthOK(a, n) == isSizeOK(a.nAllocated + n)

\* growth by just the number of elements asked for
calcNewCapacityForGrowthBy_mut(m, x, n) ==
    LET a == m.arr[x]
        m1 == SimTK_ERRCHK_ALWAYS(m, isGrowthOK(a, n), "SizeLimitExceeded")
        mustHave == ST(a.nAllocated + n)
    IN Return(m1, mustHave)

\* size_type calcNewCapacityForGrowthBy(size_type n, ...) const
calcNewCapacityForGrowthBy(m, x, n) ==
    LET a == m.arr[x]
        m1 == SimTK_ERRCHK_ALWAYS(m, isGrowthOK(a, n), "SizeLimitExceeded")
        mustHave == ST(a.nAllocated + n)
        wantToHave == IF a.nAllocated <= max_size \div 2
                      THEN ST(2 * a.nAllocated)
                      ELSE max_size
        newCapacity == Max(Max(mustHave, wantToHave), minAlloc)
    IN Return(m1, newCapacity)

\* void growAtEnd(size_type n, const char* methodName)
growAtEnd(m, x, n) ==
    LET a == m.arr[x]
        m1 == c_assert(m, n > 0)
        m2 == calcNewCapacityForGrowthBy(m1, x, n)
        m3 == SetAllocated(m2, x, m2.ret)
        m4 == allocN(m3, m3.arr[x].nAllocated)
        m5 == copyConstructThenDestructSource(m4, m4.p, 0, a.nUsed, a.data, 0)
        m6 == freeN(m5, a.data)
    IN SetData(m6, x, m4.p)

\* void allocateNoConstruct(size_type n)
allocateNoConstruct(m, x, n) ==
    LET m1 == allocN(m, n)
    IN SetAllocated(SetData(m1, x, m1.p), x, n)

\* void deallocateNoDestruct()
deallocateNoDestruct(m, x) ==
    SetAllocated(SetData(freeN(m, m.arr[x].data), x, 0), x, 0)

\* void reallocateNoDestructOrConstruct(size_type n)
reallocateNoDestructOrConstruct(m, x, n) ==
    allocateNoConstruct(deallocateNoDestruct(m, x), x, n)

\* reallocateIfAdvisable that never gives up a buffer that is big enough
reallocateIfAdvisable_mut(m, x, n) ==
    LET a == m.arr[x]
    IN IF a.nAllocated < n
       THEN reallocateNoDestructOrConstruct(m, x, n)
       ELSE m

\* void reallocateIfAdvisable(size_type n)
reallocateIfAdvisable(m, x, n) ==
    LET a == m.arr[x]
    IN IF a.nAllocated < n \/ a.nAllocated \div 2 > Max(minAlloc, n)
       THEN reallocateNoDestructOrConstruct(m, x, n)
       ELSE m

\* clear() that also gives the buffer back
clear_mut(m, x) ==
    LET a == m.arr[x]
        m1 == SetUsed(destructRange(m, a.data, 0, a.nUsed), x, 0)
    IN deallocateNoDestruct(m1, x)

\* void clear()
clear(m, x) ==
    LET a == m.arr[x]
    IN SetUsed(destructRange(m, a.data, 0, a.nUsed), x, 0)

\* reserve that takes a capacity equal to the request for too small
reserve_mut(m, x, newCapacity) ==
    LET a == m.arr[x]
    IN IF a.nAllocated > newCapacity THEN m
       ELSE LET m1 == c_assert(m, newCapacity > a.nUsed)
                m2 == allocN(m1, newCapacity)
                m3 == copyConstructThenDestructSource(m2, m2.p, 0, a.nUsed,
                                                      a.data, 0)
                m4 == freeN(m3, a.data)
            IN SetAllocated(SetData(m4, x, m2.p), x, newCapacity)

\* void reserve(size_type newCapacity)
reserve(m, x, newCapacity) ==
    LET a == m.arr[x]
    IN IF a.nAllocated >= newCapacity THEN m
       ELSE LET m1 == c_assert(m, newCapacity > a.nUsed)
                m2 == allocN(m1, newCapacity)
                m3 == copyConstructThenDestructSource(m2, m2.p, 0, a.nUsed,
                                                      a.data, 0)
                m4 == freeN(m3, a.data)
            IN SetAllocated(SetData(m4, x, m2.p), x, newCapacity)

\* push_back that grows one element before the buffer is full
push_back_mut(m, x, value) ==
    LET m1 == IF m.arr[x].nAllocated <= m.arr[x].nUsed + 1
              THEN growAtEnd(m, x, 1) ELSE m
        p == m1.arr[x].nUsed
        m2 == SetUsed(m1, x, ST(p + 1))
        m3 == constructAt(m2, m2.arr[x].data, p, value)
    IN Return(m3, p)

\* T* push_back(const T& value)
push_back(m, x, value) ==
    LET m1 == IF m.arr[x].nAllocated = m.arr[x].nUsed
              THEN growAtEnd(m, x, 1) ELSE m
        p == m1.arr[x].nUsed
        m2 == SetUsed(m1, x, ST(p + 1))
        m3 == constructAt(m2, m2.arr[x].data, p, value)
    IN Return(m3, p)

\* T* push_back(const T& value) with value a reference to element i of this
\* array: the reference is to slot i of the buffer the array had when the
\* call was made, and it is read by copyConstruct after growAtEnd has run.
push_back_within(m, x, i) ==
    LET a  == m.arr[x]
        m1 == IF a.nAllocated = a.nUsed THEN growAtEnd(m, x, 1) ELSE m
        p  == m1.arr[x].nUsed
        m2 == SetUsed(m1, x, ST(p + 1))
        m3 == noteRead(m2, a.data, i)
        m4 == constructAt(m3, m2.arr[x].data, p, valueAt(m2, a.data, i))
    IN Return(m4, p)

\* T* push_back()
push_back_default(m, x) ==
    LET m1 == IF m.arr[x].nAllocated = m.arr[x].nUsed
              THEN growAtEnd(m, x, 1) ELSE m
        p == m1.arr[x].nUsed
        m2 == SetUsed(m1, x, ST(p + 1))
        m3 == defaultConstruct(m2, m2.arr[x].data, p)
    IN Return(m3, p)

\* T* raw_push_back()
raw_push_back(m, x) ==
    LET m1 == IF m.arr[x].nAllocated = m.arr[x].nUsed
              THEN growAtEnd(m, x, 1) ELSE m
        p == m1.arr[x].nUsed
    IN Return(SetUsed(m1, x, ST(p + 1)), p)

\* The index check compiled in every build: 0 <= ix < ub.
SimTK_INDEXCHECK_ALWAYS(m, ix, ub) ==
    IF ~(0 <= ix /\ ix < ub) THEN Throw(m, "OutOfRange") ELSE m

\* at() that checks the index against the capacity
at_mut(m, x, i) ==
    LET a == m.arr[x]
        m1 == SimTK_INDEXCHECK_ALWAYS(m, i, a.nAllocated)
    IN Return(noteRead(m1, a.data, i), valueAt(m1, a.data, i))

\* T& at(index_type i), with the element the caller then reads through the
\* reference
at(m, x, i) ==
    LET a == m.arr[x]
        m1 == SimTK_INDEXCHECK_ALWAYS(m, i, a.nUsed)
    IN Return(noteRead(m1, a.data, i), valueAt(m1, a.data, i))

\* T& front(), with the element the caller then reads through the reference
front(m, x) ==
    LET a == m.arr[x]
        m1 == SimTK_ERRCHK(m, a.nUsed # 0, "EmptyContainerAccess")
    IN Return(noteRead(m1, a.data, 0), valueAt(m1, a.data, 0))

\* T& back(), likewise
back(m, x) ==
    LET a == m.arr[x]
        m1 == SimTK_ERRCHK(m, a.nUsed # 0, "EmptyContainerAccess")
        i == ST(a.nUsed - 1)
    IN Return(noteRead(m1, a.data, i), valueAt(m1, a.data, i))

\* void pop_back()
pop_back(m, x) ==
    LET a == m.arr[x]
        m1 == SimTK_ERRCHK(m, a.nUsed # 0, "EmptyContainerAccess")
        m2 == SetUsed(m1, x, ST(a.nUsed - 1))
    IN destruct(m2, a.data, m2.arr[x].nUsed)

\* SimTK_SIZECHECK(sz, maxsz, where), compiled only in a Debug build
SimTK_SIZECHECK(m, sz, maxsz) ==
    IF debug /\ ~(0 <= sz /\ sz <= maxsz)
    THEN Throw(m, "SizeLimitExceeded") ELSE m

\* template <class ForwardIterator> static void copyConstruct(T* b,
\* const T* e, ForwardIterator src), the source being slot s on of buffer sb
RECURSIVE copyConstructFrom(_, _, _, _, _, _)
copyConstructFrom(m, b, i, e, sb, s) ==
    IF i >= e \/ ~Ok(m) THEN m
    ELSE copyConstructFrom(
             newAt(noteRead(m, sb, s), b, i, valueAt(m, sb, s)),
             b, i + 1, e, sb, s + 1)

\* Array_()
ctor_default(m, x) ==
    [m EXCEPT !.arr[x] = [alive |-> TRUE, data |-> 0, nUsed |-> 0,
                          nAllocated |-> 0]]

\* The object's storage before a constructor runs: the constructors below
\* assign every data member before reading it.
Born(m, x) == ctor_default(m, x)

\* explicit Array_(size_type n)
ctor_n(m, x, n) ==
    LET m0 == Born(m, x)
        m1 == SimTK_SIZECHECK(m0, n, max_size)
        m2 == allocateNoConstruct(m1, x, n)
        m3 == defaultConstructRange(m2, m2.arr[x].data, 0, n)
    IN SetUsed(m3, x, n)

\* Array_(size_type n, const T& initVal)
ctor_fill(m, x, n, initVal) ==
    LET m0 == Born(m, x)
        m1 == SimTK_SIZECHECK(m0, n, max_size)
        m2 == allocateNoConstruct(m1, x, n)
        m3 == fillConstruct(m2, m2.arr[x].data, 0, n, initVal)
    IN SetUsed(m3, x, n)

\* template <class T2> Array_(const T2* first, const T2* last1)
ctor_range(m, x, src) ==
    LET m0 == Born(m, x)
        m1 == SimTK_ERRCHK(m0, isSizeOK(Len(src)), "SizeLimitExceeded")
        m2 == SetUsed(m1, x, ST(Len(src)))
        m3 == allocateNoConstruct(m2, x, m2.arr[x].nUsed)
    IN copyConstructRange(m3, m3.arr[x].data, 0, m3.arr[x].nUsed, src, 1)

\* Array_(const Array_&) that allocates the source's capacity
ctor_copy_mut(m, x, y) ==
    LET m0 == Born(m, x)
        m1 == SetUsed(m0, x, m.arr[y].nUsed)
        m2 == allocateNoConstruct(m1, x, m.arr[y].nAllocated)
    IN copyConstructFrom(m2, m2.arr[x].data, 0, m2.arr[x].nUsed,
                         m.arr[y].data, 0)

\* Array_(const Array_& src)
ctor_copy(m, x, y) ==
    LET m0 == Born(m, x)
        m1 == SetUsed(m0, x, m.arr[y].nUsed)
        m2 == allocateNoConstruct(m1, x, m1.arr[x].nUsed)
    IN copyConstructFrom(m2, m2.arr[x].data, 0, m2.arr[x].nUsed,
                         m.arr[y].data, 0)

\* ~Array_()
dtor(m, x) ==
    LET m1 == deallocateNoDestruct(clear(m, x), x)
    IN IF Ok(m1) THEN [m1 EXCEPT !.arr[x].alive = FALSE] ELSE m1

\* Array_& assign(size_type n, const T& fillValue)
assign_fill(m, x, n, fillValue) ==
    LET m1 == SimTK_ERRCHK_ALWAYS(m, isSizeOK(n), "SizeLimitExceeded")
        m2 == clear(m1, x)
        m3 == reallocateIfAdvisable(m2, x, n)
        m4 == fillConstruct(m3, m3.arr[x].data, 0, n, fillValue)
    IN SetUsed(m4, x, n)

\* template <class RandomAccessIterator> void assignImpl(first, last1,
\* std::random_access_iterator_tag), the source an external sequence
assignImpl(m, x, src) ==
    LET m1 == SimTK_ERRCHK(m, isSizeOK(Len(src)), "SizeLimitExceeded")
        m2 == clear(m1, x)
        m3 == SetUsed(m2, x, ST(Len(src)))
        m4 == reallocateIfAdvisable(m3, x, m3.arr[x].nUsed)
    IN copyConstructRange(m4, m4.arr[x].data, 0, m4.arr[x].nUsed, src, 1)

\* the same with the source the elements [begin(),end()) of array y
assignImplFrom(m, x, y) ==
    LET n == m.arr[y].nUsed
        m1 == SimTK_ERRCHK(m, isSizeOK(n), "SizeLimitExceeded")
        m2 == clear(m1, x)
        m3 == SetUsed(m2, x, ST(n))
        m4 == reallocateIfAdvisable(m3, x, m3.arr[x].nUsed)
    IN copyConstructFrom(m4, m4.arr[x].data, 0, m4.arr[x].nUsed,
                         m.arr[y].data, 0)

\* template <class T2> Array_& assign(const T2* first, const T2* last1) with
\* a source outside this array
assign_range(m, x, src) == assignImpl(m, x, src)

\* template <class T2> Array_& assign(const T2* first, const T2* last1) with
\* first and last1 pointing at this array's own elements first and last1:
\* the check of the source pointers against [begin(),end()) is a
\* SimTK_ERRCHK, and then assignImpl clears the array before it copies from
\* the source.  A source in a buffer that reallocateIfAdvisable has freed is
\* a dangling one.
assign_within(m, x, first, last1) ==
    LET a  == m.arr[x]
        m0 == SimTK_ERRCHK(m, last1 <= 0 \/ a.nUsed <= first, "InvalidRange")
        m1 == SimTK_ERRCHK(m0, isSizeOK(last1 - first), "SizeLimitExceeded")
        m2 == clear(m1, x)
        m3 == SetUsed(m2, x, ST(last1 - first))
        m4 == reallocateIfAdvisable(m3, x, m3.arr[x].nUsed)
        sb == IF m4.frees > m.frees THEN 0 ELSE a.data
    IN copyConstructFrom(m4, m4.arr[x].data, 0, m4.arr[x].nUsed, sb, first)

\* Array_& operator=(const Array_& src)
assign_copy(m, x, y) == IF x # y THEN assignImplFrom(m, x, y) ELSE m

\* swap that leaves the two capacities where they were
swap_mut(m, x, y) ==
    [m EXCEPT !.arr[x].data = m.arr[y].data, !.arr[x].nUsed = m.arr[y].nUsed,
              !.arr[y].data = m.arr[x].data, !.arr[y].nUsed = m.arr[x].nUsed]

\* void swap(Array_& other)
swap(m, x, y) ==
    [m EXCEPT !.arr[x] = m.arr[y], !.arr[y] = m.arr[x]]

\* erase that closes the gap but takes one element off the size
erase_range_mut(m, x, first, last1) ==
    LET a == m.arr[x]
        m1 == SimTK_ERRCHK(m, 0 <= first /\ first <= last1
                              /\ last1 <= a.nUsed, "InvalidRange")
        nErased == ST(last1 - first)
        m2 == IF nErased # 0
              THEN LET d1 == destructRange(m1, a.data, first, last1)
                       d2 == moveElementsDown(d1, x, last1, nErased)
                   IN SetUsed(d2, x, ST(a.nUsed - 1))
              ELSE m1
    IN Return(m2, first)

\* T* erase(T* first, T* last1)
erase_range(m, x, first, last1) ==
    LET a == m.arr[x]
        m1 == SimTK_ERRCHK(m, 0 <= first /\ first <= last1
                              /\ last1 <= a.nUsed, "InvalidRange")
        nErased == ST(last1 - first)
        m2 == IF nErased # 0
              THEN LET d1 == destructRange(m1, a.data, first, last1)
                       d2 == moveElementsDown(d1, x, last1, nErased)
                   IN SetUsed(d2, x, ST(a.nUsed - nErased))
              ELSE m1
    IN Return(m2, first)

\* T* erase(T* p)
erase(m, x, p) ==
    LET a == m.arr[x]
        m1 == SimTK_ERRCHK(m, 0 <= p /\ p < a.nUsed, "InvalidRange")
        m2 == destruct(m1, a.data, p)
        m3 == moveElementsDown(m2, x, p + 1, 1)
    IN Return(SetUsed(m3, x, ST(a.nUsed - 1)), p)

\* eraseFast that fills the gap with the next element instead of the last one
eraseFast_mut(m, x, p) ==
    LET a == m.arr[x]
        m1 == c_assert(m, 0 <= p /\ p < a.nUsed)
        m2 == destruct(m1, a.data, p)
        m3 == IF p + 1 # a.nUsed
              THEN moveOneElement(
                       SimTK_ERRCHK(m2, a.nUsed # 0, "EmptyContainerAccess"),
                       x, p, p + 1)
              ELSE m2
    IN Return(SetUsed(m3, x, ST(a.nUsed - 1)), p)

\* T* eraseFast(T* p)
eraseFast(m, x, p) ==
    LET a == m.arr[x]
        m1 == c_assert(m, 0 <= p /\ p < a.nUsed)
        m2 == destruct(m1, a.data, p)
        m3 == IF p + 1 # a.nUsed
              THEN moveOneElement(
                       SimTK_ERRCHK(m2, a.nUsed # 0, "EmptyContainerAccess"),
                       x, p, a.nUsed - 1)
              ELSE m2
    IN Return(SetUsed(m3, x, ST(a.nUsed - 1)), p)

\* resize that grows the capacity as push_back would
resize_mut(m, x, sz) ==
    LET a == m.arr[x]
    IN IF sz = a.nUsed THEN m
       ELSE IF sz = 0 THEN clear(m, x)
       ELSE IF sz < a.nUsed THEN erase_range(m, x, sz, a.nUsed)
       ELSE LET m1 == reserve(m, x, Max(sz, Min(2 * a.nAllocated, max_size)))
                m2 == defaultConstructRange(m1, m1.arr[x].data, a.nUsed, sz)
            IN SetUsed(m2, x, sz)

\* void resize(size_type sz)
resize(m, x, sz) ==
    LET a == m.arr[x]
    IN IF sz = a.nUsed THEN m
       ELSE IF sz = 0 THEN clear(m, x)
       ELSE IF sz < a.nUsed THEN erase_range(m, x, sz, a.nUsed)
       ELSE LET m1 == reserve(m, x, sz)
                m2 == defaultConstructRange(m1, m1.arr[x].data, a.nUsed, sz)
            IN SetUsed(m2, x, sz)

\* void resize(size_type sz, const T& initVal)
resize_fill(m, x, sz, initVal) ==
    LET a == m.arr[x]
    IN IF sz = a.nUsed THEN m
       ELSE IF sz = 0 THEN clear(m, x)
       ELSE IF sz < a.nUsed THEN erase_range(m, x, sz, a.nUsed)
       ELSE LET m1 == reserve(m, x, sz)
                m2 == fillConstruct(m1, m1.arr[x].data, a.nUsed, sz, initVal)
            IN SetUsed(m2, x, sz)

\* T* insertGapAt(T* p, size_type n, const char* methodName): the gap's
\* first slot is left in m.ret
insertGapAt(m, x, p, n) ==
    LET a == m.arr[x]
        m1 == SimTK_ERRCHK(m, 0 <= p /\ p <= a.nUsed, "InvalidRange")
        before == ST(p)
        after == ST(a.nUsed - p)
    IN IF n = 0 THEN Return(m1, p)
       ELSE IF a.nAllocated >= ST(a.nUsed + n)
       THEN Return(moveElementsUp(m1, x, p, n), p)
       ELSE LET g1 == calcNewCapacityForGrowthBy(m1, x, n)
                g2 == SetAllocated(g1, x, g1.ret)
                g3 == allocN(g2, g2.arr[x].nAllocated)
                g4 == copyConstructThenDestructSource(g3, g3.p, 0, before,
                                                      a.data, 0)
                g5 == copyConstructThenDestructSource(g4, g3.p, before + n,
                                                      before + n + after,
                                                      a.data, p)
                g6 == freeN(g5, a.data)
            IN Return(SetData(g6, x, g3.p), before)

\* T* insert(T* p, size_type n, const T& value)
insert_fill(m, x, p, n, value) ==
    LET m1 == insertGapAt(m, x, p, n)
        gap == m1.ret
        m2 == fillConstruct(m1, m1.arr[x].data, gap, gap + n, value)
        m3 == SetUsed(m2, x, ST(m2.arr[x].nUsed + n))
    IN Return(m3, gap)

\* T* insert(T* p, const T& value)
insert(m, x, p, value) ==
    LET m1 == insertGapAt(m, x, p, 1)
        gap == m1.ret
        m2 == constructAt(m1, m1.arr[x].data, gap, value)
        m3 == SetUsed(m2, x, ST(m2.arr[x].nUsed + 1))
    IN Return(m3, gap)

\* T* insert(T* p, const T& value) with value a reference to element i of
\* this array, read by copyConstruct after insertGapAt has made the gap
insert_within(m, x, p, i) ==
    LET a   == m.arr[x]
        m1  == insertGapAt(m, x, p, 1)
        gap == m1.ret
        m2  == noteRead(m1, a.data, i)
        m3  == constructAt(m2, m1.arr[x].data, gap, valueAt(m1, a.data, i))
        m4  == SetUsed(m3, x, ST(m3.arr[x].nUsed + 1))
    IN Return(m4, gap)

\* template <class RandomAccessIterator> T* insertImpl(T* p, first, last1,
\* std::random_access_iterator_tag), the source an external sequence
insertImpl(m, x, p, src) ==
    LET m1 == SimTK_ERRCHK(m, isGrowthOK(m.arr[x], Len(src)),
                           "SizeLimitExceeded")
        n == ST(Len(src))
        m2 == insertGapAt(m1, x, p, n)
        gap == m2.ret
        m3 == copyConstructRange(m2, m2.arr[x].data, gap, gap + n, src, 1)
    IN Return(m3, gap)

\* template <class T2> T* insert(T* p, T2* first, T2* last1) with a source
\* outside this array
insert_range(m, x, p, src) == insertImpl(m, x, p, src)

(***************************************************************************)
(* The state machine.  Array 1 is default-constructed at the start; array  *)
(* 2 exists only as a copy of array 1 made while array 1 is alive.  Every  *)
(* action runs one public operation to its end and records in `last` the   *)
(* call, its outcome and the state it started from; Resume clears that     *)
(* record before the next call.  Positions are offsets from begin().       *)
(***************************************************************************)
Dead == [alive |-> FALSE, data |-> 0, nUsed |-> 0, nAllocated |-> 0]
NoHeap == [b \in BufIds |-> <<>>]
NoArr == [x \in Arrays |-> Dead]
NotJustAppends == <<Raw>>

Idle == [op |-> "idle", x |-> 0, res |-> "ok", ret |-> 0, n |-> 0, p |-> 0,
         q |-> 0, v |-> 0, src |-> <<>>, allocs |-> 0, frees |-> 0,
         ctors |-> 0, dtors |-> 0,
         overwrite |-> FALSE, deadAccess |-> FALSE, oob |-> FALSE,
         garbage |-> FALSE, deadDtor |-> FALSE, badFree |-> FALSE,
         lost |-> 0,
         leaked |-> 0, moved |-> {}, heap0 |-> NoHeap,
         arr0 |-> NoArr, reserved0 |-> [x \in Arrays |-> 0]]

InitIn(e) ==
    /\ env = e
    /\ debug \in BOOLEAN
    /\ appended = <<>>
    /\ reserved = [x \in Arrays |-> 0]
    /\ appendAllocs = 0
    /\ heap = NoHeap
    /\ arr = [x \in Arrays |->
                 IF x = 1 THEN [alive |-> TRUE, data |-> 0, nUsed |-> 0,
                                nAllocated |-> 0]
                 ELSE Dead]
    /\ last = Idle

Init == InitIn(Narrow)
InitWide == InitIn(Wide)
InitFull == InitIn(Throwing)
InitAppend == InitIn(Long)
InitGrow == InitIn(Grow)

\* The array's members describe its buffer, the first nUsed slots hold an
\* element and no other slot does: the state every operation expects.
Intact(x) ==
    LET a == arr[x]
    IN /\ a.nUsed <= a.nAllocated
       /\ IF a.data = 0 THEN a.nAllocated = 0
          ELSE Len(heap[a.data]) = a.nAllocated
       /\ \A i \in 0..(a.nAllocated - 1) :
              (heap[a.data][i + 1] # Raw) <=> (i < a.nUsed)

\* Once an operation has left an array in a state that is not intact, only
\* the destruction of the arrays is explored further.
Ready == last.op = "idle"
Usable(x) ==
    Ready /\ arr[x].alive /\ \A y \in Arrays : arr[y].alive => Intact(y)

\* What a read of a slot holding no element can produce.  Of the operations
\* explored on intact arrays only assign_within, front and back make such a
\* read, and they draw the value read from ReadOf.
\* The values to explore for such a read by an operation on an intact array:
\* all of them where the operation makes the read, one where it makes none.
ReadOf(reads) == IF reads THEN Vals ELSE {DefaultVal}

Garbage == IF \A y \in Arrays : arr[y].alive => Intact(y)
           THEN {DefaultVal} ELSE Vals

\* The buffers are named after their owners when the operation ends (heap
\* addresses are interchangeable): array x's buffer becomes buffer x.
\* Whether the operation allocated or freed is kept in the label.
Owned(m) == {m.arr[x].data : x \in Arrays} \ {0}
Leaked(m) == {b \in BufIds : m.heap[b] # <<>> /\ b \notin Owned(m)}
RenamedHeap(m) ==
    [b \in BufIds |->
        IF b \in Arrays /\ m.arr[b].data \in BufIds
        THEN m.heap[m.arr[b].data] ELSE <<>>]
RenamedArr(m) ==
    [x \in Arrays |->
        [m.arr[x] EXCEPT !.data = IF m.arr[x].data \in BufIds THEN x ELSE 0]]

\* Array y has the buffer and the capacity it had before operation op on x.
Kept(x, m, y) ==
    /\ arr[y].alive /\ m.arr[y].alive
    /\ m.arr[y].data = arr[y].data
    /\ m.arr[y].nAllocated = arr[y].nAllocated
    /\ x = y => m.allocs = 0 /\ m.frees = 0

Label(op, x, m, res, n, p, q, v, src) ==
    [op |-> op, x |-> x, res |-> res, ret |-> IF res = "ok" THEN m.ret ELSE 0,
     n |-> n, p |-> p, q |-> q, v |-> v, src |-> src,
     allocs |-> m.allocs, frees |-> m.frees,
     ctors |-> m.ctors, dtors |-> m.dtors,
     overwrite |-> m.overwrite, deadAccess |-> m.deadAccess, oob |-> m.oob,
     garbage |-> m.garbage, deadDtor |-> m.deadDtor,
     badFree |-> m.badFree, lost |-> m.lost,
     leaked |-> Cardinality(Leaked(m)),
     moved |-> {y \in Arrays : arr[y].alive /\ ~Kept(x, m, y)},
     heap0 |-> heap, arr0 |-> arr, reserved0 |-> reserved]

\* The operation ends in machine state m.  A failed assert ends the process.
\* An access outside every buffer is undefined: it ends the process, or the
\* access is lost and the operation goes on to its end.
Commit(op, x, m, n, p, q, v, src) ==
    /\ \A y \in Arrays :
           LET b == m.arr[y].data
           IN b \in BufIds =>
                  Len(m.heap[b]) <= IF \A z \in Arrays : m.arr[z].alive
                                    THEN env.paircap[y] ELSE env.cap
    /\ \A b \in Leaked(m) : Len(m.heap[b]) <= env.cap
    /\ \/ /\ m.res # "abort"
          /\ heap' = RenamedHeap(m)
          /\ arr' = RenamedArr(m)
          /\ last' = Label(op, x, m, m.res, n, p, q, v, src)
       \/ /\ m.res = "abort" \/ m.oob
          /\ UNCHANGED <<heap, arr>>
          /\ last' = Label(op, x, m, IF m.res = "abort" THEN "abort"
                                     ELSE "crash", n, p, q, v, src)
    /\ appended' =
           IF last'.res \notin {"ok", "ElementCtorThrew"} THEN appended
           ELSE IF op = "ctor_default" /\ x = 1 THEN <<>>
           ELSE IF x # 1 /\ op \notin {"swap", "assign_copy"} THEN appended
           ELSE IF op \in {"push_back", "push_back_default", "raw_push_back"}
                   /\ appended # NotJustAppends
           THEN Append(appended, v)
           ELSE NotJustAppends
    /\ appendAllocs' =
           IF appended' = NotJustAppends \/ appended' = <<>> THEN 0
           ELSE IF appended' # appended THEN appendAllocs + m.allocs
           ELSE appendAllocs
    /\ reserved' =
           [y \in Arrays |->
               IF last'.res = "ok" /\ op = "reserve" /\ x = y
                  /\ arr'[y].nAllocated = n
               THEN n
               ELSE IF Kept(x, m, y) /\ arr'[y].nUsed <= reserved[y]
               THEN reserved[y]
               ELSE 0]
    /\ UNCHANGED <<env, debug>>

\* A constructor that throws leaves no object behind.
CommitCtor(op, x, m, n, v, src) ==
    Commit(op, x, IF Ok(m) THEN m ELSE [m EXCEPT !.arr[x] = Dead],
           n, 0, 0, v, src)

\* The caller has seen the outcome of the last operation and goes on, unless
\* a failed assert or a wild access has ended the process.
Resume ==
    /\ ~Ready
    /\ last.res \notin {"abort", "crash"}
    /\ last' = Idle
    /\ UNCHANGED <<env, debug, heap, arr, appended, reserved, appendAllocs>>

Sources == SeqsUpTo(Vals, env.srclen)

DefaultCtor(x) ==
    /\ Ready /\ ~arr[x].alive
    /\ CommitCtor("ctor_default", x, ctor_default(Start(DefaultVal), x),
                  0, 0, <<>>)

SizeCtor(x) ==
    /\ Ready /\ ~arr[x].alive
    /\ \E k \in ThrowAt, n \in SizeType :
           CommitCtor("ctor_n", x, ctor_n(StartT(DefaultVal, k), x, n),
                      n, 0, <<>>)

FillCtor(x) ==
    /\ Ready /\ ~arr[x].alive
    /\ \E k \in ThrowAt, n \in SizeType, v \in FillVals :
           CommitCtor("ctor_fill", x, ctor_fill(StartT(DefaultVal, k), x, n, v),
                      n, v, <<>>)

RangeCtor(x) ==
    /\ Ready /\ ~arr[x].alive
    /\ \E k \in ThrowAt, src \in Sources :
           CommitCtor("ctor_range", x,
                      ctor_range(StartT(DefaultVal, k), x, src),
                      Len(src), 0, src)

CopyCtor(x, y) ==
    /\ ~arr[x].alive /\ Usable(y)
    /\ \E k \in ThrowAt, g \in Garbage :
           CommitCtor("ctor_copy", x, ctor_copy(StartT(g, k), x, y),
                      arr[y].nUsed, 0, <<>>)

Destroy(x) ==
    /\ Ready /\ arr[x].alive
    /\ Commit("dtor", x, dtor(Start(DefaultVal), x), 0, 0, 0, 0, <<>>)

AssignFill(x) ==
    /\ Usable(x)
    /\ \E k \in ThrowAt, n \in SizeType, v \in FillVals :
           Commit("assign_fill", x, assign_fill(StartT(DefaultVal, k), x, n, v),
                  n, 0, 0, v, <<>>)

AssignRange(x) ==
    /\ Usable(x)
    /\ \E k \in ThrowAt, src \in Sources :
           Commit("assign_range", x,
                  assign_range(StartT(DefaultVal, k), x, src),
                  Len(src), 0, 0, 0, src)

AssignWithin(x) ==
    /\ Usable(x)
    /\ \E first \in 0..arr[x].nUsed : \E last1 \in first..arr[x].nUsed :
       \E g \in ReadOf(first < last1) :
           Commit("assign_within", x, assign_within(Start(g), x, first, last1),
                  last1 - first, first, last1, 0, <<>>)

AssignCopy(x, y) ==
    /\ Usable(x) /\ Usable(y)
    /\ \E k \in ThrowAt, g \in Garbage :
           Commit("assign_copy", x, assign_copy(StartT(g, k), x, y),
                  arr[y].nUsed, 0, 0, 0, <<>>)

\* a = a
AssignSelf(x) ==
    /\ Usable(x)
    /\ Commit("assign_self", x, assign_copy(Start(DefaultVal), x, x),
              arr[x].nUsed, 0, 0, 0, <<>>)

Swap(x, y) ==
    /\ Usable(x) /\ Usable(y)
    /\ Commit("swap", x, swap(Start(DefaultVal), x, y), 0, 0, 0, 0, <<>>)

Resize(x) ==
    /\ Usable(x)
    /\ \E k \in ThrowAt, sz \in SizeType, g \in Garbage :
           Commit("resize", x, resize(StartT(g, k), x, sz), sz, 0, 0, 0, <<>>)

ResizeFill(x) ==
    /\ Usable(x)
    /\ \E k \in ThrowAt, sz \in SizeType, v \in FillVals, g \in Garbage :
           Commit("resize_fill", x, resize_fill(StartT(g, k), x, sz, v),
                  sz, 0, 0, v, <<>>)

Reserve(x) ==
    /\ Usable(x)
    /\ \E n \in SizeType, g \in Garbage :
           Commit("reserve", x, reserve(Start(g), x, n), n, 0, 0, 0, <<>>)

Clear(x) ==
    /\ Usable(x)
    /\ Commit("clear", x, clear(Start(DefaultVal), x), 0, 0, 0, 0, <<>>)

EraseRange(x) ==
    /\ Usable(x)
    /\ \E first \in 0..arr[x].nUsed, g \in Garbage :
       \E last1 \in first..arr[x].nUsed :
           Commit("erase_range", x, erase_range(Start(g), x, first, last1),
                  0, first, last1, 0, <<>>)

Erase(x) ==
    /\ Usable(x)
    /\ \E p \in 0..(arr[x].nUsed - 1), g \in Garbage :
           Commit("erase", x, erase(Start(g), x, p), 0, p, 0, 0, <<>>)

EraseFast(x) ==
    /\ Usable(x)
    /\ \E p \in 0..(arr[x].nUsed - 1), g \in Garbage :
           Commit("eraseFast", x, eraseFast(Start(g), x, p), 0, p, 0, 0, <<>>)

InsertFill(x) ==
    /\ Usable(x)
    /\ \E k \in ThrowAt, p \in 0..arr[x].nUsed, n \in SizeType,
          v \in FillVals, g \in Garbage :
           Commit("insert_fill", x, insert_fill(StartT(g, k), x, p, n, v),
                  n, p, 0, v, <<>>)

Insert(x) ==
    /\ Usable(x)
    /\ \E p \in 0..arr[x].nUsed, v \in Vals, g \in Garbage :
           Commit("insert", x, insert(Start(g), x, p, v), 1, p, 0, v, <<>>)

InsertRange(x) ==
    /\ Usable(x)
    /\ \E k \in ThrowAt, p \in 0..arr[x].nUsed, src \in Sources, g \in Garbage :
           Commit("insert_range", x, insert_range(StartT(g, k), x, p, src),
                  Len(src), p, 0, 0, src)

PushBack(x) ==
    /\ Usable(x)
    /\ \E v \in Vals, g \in Garbage :
           Commit("push_back", x, push_back(Start(g), x, v), 1, 0, 0, v, <<>>)

PushBackDefault(x) ==
    /\ Usable(x)
    /\ \E g \in Garbage :
           Commit("push_back_default", x, push_back_default(Start(g), x),
                  1, 0, 0, DefaultVal, <<>>)

\* raw_push_back() and the construction the caller must do at once:
\* new(a.raw_push_back()) T(v)
RawPushBack(x) ==
    /\ Usable(x)
    /\ \E v \in Vals, g \in Garbage :
           LET m1 == raw_push_back(Start(g), x)
           IN Commit("raw_push_back", x,
                     constructAt(m1, m1.arr[x].data, m1.ret, v),
                     1, 0, 0, v, <<>>)

\* a.push_back(a[i])
PushBackWithin(x) ==
    /\ Usable(x)
    /\ \E i \in 0..(arr[x].nUsed - 1), g \in Vals :
           Commit("push_back_within", x, push_back_within(Start(g), x, i),
                  1, arr[x].nUsed, i, heap[arr[x].data][i + 1], <<>>)

\* a.insert(a.begin() + p, a[i])
InsertWithin(x) ==
    /\ Usable(x)
    /\ \E p \in 0..arr[x].nUsed, i \in 0..(arr[x].nUsed - 1), g \in Vals :
           Commit("insert_within", x, insert_within(Start(g), x, p, i),
                  1, p, i, heap[arr[x].data][i + 1], <<>>)

PopBack(x) ==
    /\ Usable(x)
    /\ Commit("pop_back", x, pop_back(Start(DefaultVal), x), 0, 0, 0, 0, <<>>)

At(x) ==
    /\ Usable(x)
    /\ \E i \in SizeType, g \in Vals :
           Commit("at", x, at(Start(g), x, i), 0, i, 0, 0, <<>>)

Front(x) ==
    /\ Usable(x)
    /\ \E g \in ReadOf(arr[x].nUsed = 0) :
           Commit("front", x, front(Start(g), x), 0, 0, 0, 0, <<>>)

Back(x) ==
    /\ Usable(x)
    /\ \E g \in ReadOf(arr[x].nUsed = 0) :
           Commit("back", x, back(Start(g), x), 0, 0, 0, 0, <<>>)

Next ==
    \/ DefaultCtor(1) \/ SizeCtor(1) \/ FillCtor(1) \/ RangeCtor(1)
    \/ (~arr[2].alive /\ Destroy(1))
    \/ CopyCtor(2, 1) \/ Destroy(2)
    \/ \E x \in Arrays : \E y \in Arrays \ {x} : AssignCopy(x, y)
    \/ Swap(1, 2)
    \/ \E x \in Arrays :
          \/ AssignFill(x) \/ AssignRange(x) \/ Resize(x) \/ ResizeFill(x)
          \/ Reserve(x) \/ Clear(x) \/ EraseRange(x) \/ Erase(x)
          \/ EraseFast(x) \/ InsertFill(x) \/ Insert(x) \/ InsertRange(x)
          \/ PushBack(x) \/ PushBackDefault(x) \/ RawPushBack(x)
          \/ PopBack(x)
    \/ Resume

Spec == Init /\ [][Next]_vars
SpecWide == InitWide /\ [][Next]_vars

\* Next with the element accessors and with the calls whose source lies in
\* the array itself: assign(first,last1), a = a, push_back and insert of one
\* of the array's own elements
NextFull ==
    \/ Next
    \/ \E x \in Arrays : AssignWithin(x) \/ Front(x) \/ Back(x) \/ At(x)
    \/ \E x \in Arrays : AssignSelf(x) \/ PushBackWithin(x) \/ InsertWithin(x)

SpecFull == InitFull /\ [][NextFull]_vars

\* One array that is built, read through its accessors and destroyed.
NextAccess ==
    \/ DefaultCtor(1) \/ RangeCtor(1)
    \/ Reserve(1) \/ PushBack(1) \/ PopBack(1) \/ Clear(1)
    \/ At(1) \/ Front(1) \/ Back(1)
    \/ Destroy(1)
    \/ Resume

SpecAccess == Init /\ [][NextAccess]_vars

\* Assignments to an array on the wider index type, where a capacity can be
\* more than twice min(max_size(), 4): array 1 is given its capacity by
\* reserve and its elements by the assignments, array 2 is a small copy.
NextAssign ==
    \/ DefaultCtor(1) \/ (~arr[2].alive /\ Destroy(1))
    \/ CopyCtor(2, 1) \/ Destroy(2)
    \/ \E x \in Arrays : \E y \in Arrays \ {x} : AssignCopy(x, y)
    \/ \E x \in Arrays : AssignFill(x) \/ AssignRange(x) \/ Reserve(x)
    \/ Resume

SpecAssign == InitWide /\ [][NextAssign]_vars

\* Appends to one array, on the wider index type with two element values.
NextAppend ==
    \/ DefaultCtor(1)
    \/ PushBack(1)
    \/ PushBackDefault(1)
    \/ RawPushBack(1)
    \/ Destroy(1)
    \/ Resume
SpecAppend == InitAppend /\ [][NextAppend]_vars

\* Appends of one value up to max_size elements.
SpecGrow == InitGrow /\ [][NextAppend]_vars


(***************************************************************************)
(* What the operations are observed to do.  A state reached by an          *)
(* operation carries its name and arguments, its outcome, and the arrays   *)
(* and the heap as they were when it was called.                           *)
(***************************************************************************)
\* The elements of an array with members a over heap h: slots [0, size()).
Contents(h, a) ==
    IF a.data \notin BufIds THEN <<>>
    ELSE SubSeq(h[a.data], 1, Min(a.nUsed, Len(h[a.data])))

Did(op) == last.op = op /\ last.res = "ok"
Ended == last.op # "idle" /\ last.res \notin {"abort", "crash"}
Pre == last.arr0[last.x]
Post == arr[last.x]
Elems0 == Contents(last.heap0, Pre)
Elems == Contents(heap, Post)
SameBuffer ==
    /\ last.x \notin last.moved
    /\ last.allocs = 0 /\ last.frees = 0
    /\ Post.nAllocated = Pre.nAllocated
Appends == {"push_back", "push_back_default", "raw_push_back"}

\* C1: after operations that each returned without error, every array has
\* size() <= capacity().
C1_SizeWithinCapacity ==
    last.res = "ok" =>
        \A x \in Arrays : arr[x].alive => arr[x].nUsed <= arr[x].nAllocated

\* C2: insert(p, first, last1) of the n elements of a source outside the
\* array into an array holding S gives S[0..p) ++ source ++ S[p..), and the
\* size grows by exactly n.
C2_InsertRange ==
    Did("insert_range") =>
        /\ Elems = SubSeq(Elems0, 1, last.p) \o last.src
                       \o SubSeq(Elems0, last.p + 1, Len(Elems0))
        /\ Post.nUsed = Pre.nUsed + Len(last.src)

\* C3: whenever an operation has ended, every slot [0, size()) of every array
\* holds a constructed element and every slot [size(), capacity()) holds
\* none, and the operation constructed into no slot that held an element and
\* read or destructed no slot that held none.
C3_SlotsLiveUpToSize ==
    Ended =>
        /\ \A x \in Arrays : arr[x].alive => Intact(x)
        /\ ~last.overwrite
        /\ ~last.deadAccess

\* C4: capacity() <= max_size() and size() <= max_size() for every array, at
\* all times.
C4_WithinMaxSize ==
    \A x \in Arrays :
        arr[x].alive =>
            arr[x].nAllocated <= max_size /\ arr[x].nUsed <= max_size

\* C5: k appends, in any of the three forms, to a default-constructed array
\* leave size() = k, capacity() >= k and the appended values in order; each
\* append adds one to size() and gets a new buffer only if capacity() was
\* equal to size() when it was called.
C5_AppendsInOrder ==
    /\ appended # NotJustAppends =>
           /\ arr[1].alive
           /\ arr[1].nUsed = Len(appended)
           /\ arr[1].nAllocated >= Len(appended)
           /\ Contents(heap, arr[1]) = appended
    /\ last.op \in Appends /\ last.res = "ok" /\ appended # NotJustAppends =>
           /\ Post.nUsed = Pre.nUsed + 1
           /\ ~SameBuffer => Pre.nAllocated = Pre.nUsed

\* Five appends, the last one in the raw form, have filled the first buffer
\* and moved the elements to a second one.
C5_Witness ==
    /\ Len(appended) = 5 /\ appended[1] = 2 /\ appended[2] = 1
    /\ last.op = "raw_push_back" /\ last.res = "ok"
    /\ last.allocs = 1 /\ last.frees = 1
    /\ Pre.nAllocated = 4

\* C6: reserve(target) with target > max_size() fails with SizeLimitExceeded
\* and leaves size, capacity, buffer and elements as they were.
C6_ReserveBeyondMax ==
    last.op = "reserve" /\ last.n > max_size /\ Ended =>
        /\ last.res = "SizeLimitExceeded"
        /\ arr = last.arr0
        /\ heap = last.heap0

\* C7: reserve(target) changes nothing when capacity() >= target; otherwise
\* capacity() = target afterwards, size() and the elements are as before,
\* and the old buffer is freed.  So reserve never reduces the capacity, and
\* a second reserve(target) finds capacity() >= target and changes nothing.
C7_Reserve ==
    Did("reserve") =>
        /\ IF Pre.nAllocated >= last.n
           THEN /\ arr = last.arr0 /\ heap = last.heap0
                /\ last.allocs = 0 /\ last.frees = 0 /\ last.moved = {}
           ELSE /\ Post.nAllocated = last.n
                /\ Post.nUsed = Pre.nUsed
                /\ Elems = Elems0
                /\ Intact(last.x)
                /\ last.allocs = 1
                /\ last.frees = (IF Pre.data = 0 THEN 0 ELSE 1)
                /\ last.leaked = 0
        /\ Post.nAllocated >= Pre.nAllocated
        /\ Post.nAllocated >= last.n

\* reserve(3) has moved the two elements of a full array to a new buffer.
C7_Witness ==
    /\ Did("reserve") /\ last.n = 3
    /\ Pre.nAllocated = 2 /\ Elems0 = <<1, 2>>
    /\ Post.nAllocated = 3 /\ Elems = <<1, 2>> /\ last.frees = 1

\* C8: once reserve(c) has made capacity() = c, the array keeps its buffer
\* and its capacity through every operation until one grows its size beyond
\* c; assign and operator= from at most c elements are such operations.
\* (A later reserve asks for a capacity of its own.)
C8_NoReallocationAfterReserve ==
    last.res = "ok" /\ last.op # "reserve" =>
        \A x \in Arrays :
            /\ last.reserved0[x] > 0
            /\ arr[x].alive
            /\ arr[x].nUsed <= last.reserved0[x]
            => /\ x \notin last.moved
               /\ arr[x].nAllocated = last.reserved0[x]

\* C9: a constructor, assign, resize, push_back or insert fails with
\* SizeLimitExceeded if the size it would produce exceeds max_size(), and
\* does not fail so if that size is at most max_size().
ResultingSize ==
    IF last.op \in {"ctor_n", "ctor_fill", "ctor_range", "ctor_copy",
                    "assign_fill", "assign_range", "assign_copy",
                    "resize", "resize_fill"}
    THEN last.n
    ELSE Pre.nUsed + last.n
C9_SizeLimit ==
    /\ Ended
    /\ last.op \in {"ctor_n", "ctor_fill", "ctor_range", "ctor_copy",
                    "assign_fill", "assign_range", "assign_copy",
                    "resize", "resize_fill", "insert_fill", "insert",
                    "insert_range"} \cup Appends
    => (last.res = "SizeLimitExceeded" <=> ResultingSize > max_size)

\* C10: erase(first, last1) and erase(p) remove exactly the elements of the
\* range, keep the others in their order, reduce size() by the length of the
\* range, keep the capacity and the buffer, and return first; an empty range
\* changes nothing.
ErasedTo == IF last.op = "erase" THEN last.p + 1 ELSE last.q
C10_Erase ==
    Did("erase_range") \/ Did("erase") =>
        /\ Elems = SubSeq(Elems0, 1, last.p)
                       \o SubSeq(Elems0, ErasedTo + 1, Len(Elems0))
        /\ Post.nUsed = Pre.nUsed - (ErasedTo - last.p)
        /\ SameBuffer
        /\ Intact(last.x)
        /\ last.ret = last.p
        /\ ErasedTo = last.p =>
               /\ arr = last.arr0 /\ heap = last.heap0
               /\ last.ctors = 0 /\ last.dtors = 0

\* erase(first, last1) has removed the middle two of four elements.
C10_Witness ==
    /\ Did("erase_range") /\ last.p = 1 /\ last.q = 3
    /\ Elems0 = <<1, 2, 2, 1>> /\ Elems = <<1, 1>>
    /\ Post.nAllocated = 4

\* C11: eraseFast(p) on a valid position destructs the element at p and, if
\* p was not the last position, puts the former last element at p; all other
\* elements stay where they were, size() goes down by one, the capacity and
\* the buffer stay, at most one element is copy-moved, and p is returned.
C11_EraseFast ==
    Did("eraseFast") =>
        LET k == Len(Elems0)
            wasLast == last.p = k - 1
        IN /\ Elems = [i \in 1..(k - 1) |->
                          IF i = last.p + 1 THEN Elems0[k] ELSE Elems0[i]]
           /\ Post.nUsed = Pre.nUsed - 1
           /\ SameBuffer
           /\ Intact(last.x)
           /\ last.ret = last.p
           /\ last.ctors = (IF wasLast THEN 0 ELSE 1)
           /\ last.dtors = (IF wasLast THEN 1 ELSE 2)

\* eraseFast at the first of four elements has put the last one there.
C11_Witness ==
    /\ Did("eraseFast") /\ last.p = 0
    /\ Elems0 = <<1, 1, 1, 2>> /\ Elems = <<2, 1, 1>>
    /\ last.ctors = 1

\* C12: insert(p, n, value) (and insert(p, value), n = 1) at a valid position
\* of an array holding S gives S[0..p) ++ n copies of value ++ S[p..size),
\* size() grows by n and the returned position is that of the first inserted
\* element; n = 0 changes nothing; if capacity() >= size() + n the buffer is
\* kept (the returned pointer is p), otherwise there is exactly one
\* reallocation.
C12_InsertFill ==
    Did("insert_fill") \/ Did("insert") =>
        /\ Elems = SubSeq(Elems0, 1, last.p) \o [i \in 1..last.n |-> last.v]
                       \o SubSeq(Elems0, last.p + 1, Len(Elems0))
        /\ Post.nUsed = Pre.nUsed + last.n
        /\ last.ret = last.p
        /\ last.n = 0 =>
               /\ arr = last.arr0 /\ heap = last.heap0
               /\ last.ctors = 0 /\ last.dtors = 0
        /\ IF Pre.nAllocated >= Pre.nUsed + last.n
           THEN SameBuffer
           ELSE /\ last.allocs = 1
                /\ last.frees = (IF Pre.data = 0 THEN 0 ELSE 1)
                /\ last.leaked = 0

\* C13: N appends to a default-constructed array allocate at most
\* ceil(log2(N)) + 1 buffers: the first allocation is of min(max_size(), 4)
\* slots, and every later one at least doubles the capacity or takes it to
\* max_size().
RECURSIVE CeilLog2From(_, _)
CeilLog2From(n, k) == IF 2^k >= n THEN k ELSE CeilLog2From(n, k + 1)
CeilLog2(n) == CeilLog2From(n, 0)
C13_LogarithmicReallocations ==
    /\ appended # NotJustAppends /\ Len(appended) >= 1 =>
           appendAllocs <= CeilLog2(Len(appended)) + 1
    /\ last.op \in Appends /\ last.res = "ok" /\ last.allocs > 0 =>
           /\ last.allocs = 1
           /\ Post.nAllocated >= Min(2 * Pre.nAllocated, max_size)
           /\ Pre.nAllocated = 0 => Post.nAllocated = Min(max_size, 4)

\* The 17th append has taken the capacity from 16 to max_size, the fourth
\* allocation since the array was constructed.
C13_Witness ==
    /\ Len(appended) = 17 /\ appendAllocs = 4
    /\ last.op = "push_back" /\ last.res = "ok" /\ last.allocs = 1
    /\ Pre.nAllocated = 16 /\ Post.nAllocated = max_size


\* C14: assign(first,last1) with a non-empty [first,last1) inside the array's
\* own live elements fails with InvalidRange and leaves the array's size,
\* capacity, buffer and contents as they were.
C14_OverlappingAssignRejected ==
    last.op = "assign_within" /\ last.p < last.q =>
        /\ last.res = "InvalidRange"
        /\ arr = last.arr0
        /\ heap = last.heap0

Other(x) == CHOOSE y \in Arrays : y # x

\* C15: the copy constructor gives size() == capacity() == src.size(), the
\* source's elements in order, and a buffer of its own (none for an empty
\* source); and whatever one call on one array does, the other array's size,
\* capacity and contents stay as they were (swap acts on both arrays).
C15_CopyConstruct ==
    /\ Did("ctor_copy") =>
           LET src == last.arr0[Other(last.x)]
           IN /\ Post.nUsed = src.nUsed
              /\ Post.nAllocated = src.nUsed
              /\ Elems = Contents(last.heap0, src)
              /\ last.ctors = src.nUsed /\ last.dtors = 0
              /\ IF src.nUsed = 0
                 THEN Post.data = 0 /\ last.allocs = 0
                 ELSE /\ Post.data \in BufIds
                      /\ Post.data # arr[Other(last.x)].data
                      /\ last.allocs = 1
    /\ last.op \notin {"idle", "swap"} /\ last.arr0[Other(last.x)].alive =>
           LET y == Other(last.x)
           IN /\ arr[y].alive
              /\ arr[y].nUsed = last.arr0[y].nUsed
              /\ arr[y].nAllocated = last.arr0[y].nAllocated
              /\ Contents(heap, arr[y]) = Contents(last.heap0, last.arr0[y])

C15_Witness ==
    /\ Did("ctor_copy") /\ last.x = 2
    /\ arr[1].nUsed = 1 /\ arr[1].nAllocated = 2
    /\ Post.nUsed = 1 /\ Post.nAllocated = 1
    /\ Elems = <<2>> /\ Post.data # arr[1].data

\* C16: no call loses an element or a buffer: none destructs a slot that
\* holds no element, constructs over a live element or outside every buffer,
\* frees a buffer with live elements in it or one already freed, or leaves a
\* buffer that no array owns; and a destructor call destructs each of the
\* array's elements and frees its buffer, so that nothing is left once every
\* array is destroyed.
C16_DestructedAndFreedOnce ==
    /\ Ended =>
           /\ ~last.deadDtor
           /\ ~last.overwrite
           /\ ~last.badFree
           /\ last.lost = 0
           /\ last.leaked = 0
    /\ Did("dtor") =>
           /\ last.dtors = Pre.nUsed
           /\ last.frees = (IF Pre.data = 0 THEN 0 ELSE 1)
           /\ last.ctors = 0 /\ last.allocs = 0
           /\ heap[last.x] = <<>>
           /\ (\A y \in Arrays : ~arr[y].alive) => heap = NoHeap

\* The operations that construct a range of elements in one call.
BulkOps == {"ctor_n", "ctor_fill", "ctor_range", "ctor_copy", "assign_fill",
            "assign_range", "assign_copy", "resize", "resize_fill",
            "insert_fill", "insert_range"}

\* C17: when an element constructor throws in the middle of a bulk
\* construction, the call leaves no buffer without an owner and no element
\* outside the arrays' sizes: every array that exists afterwards has exactly
\* its first size() slots holding elements.
C17_BulkConstructFailure ==
    last.op \in BulkOps /\ last.res = "ElementCtorThrew" =>
        /\ last.leaked = 0
        /\ last.lost = 0
        /\ \A y \in Arrays : arr[y].alive => Intact(y)

\* C18: swap gives each array the other's former buffer, size and capacity,
\* with no construction, destruction, allocation or free; and its effect on
\* the resulting arrays is to put back what was there before.
C18_Swap ==
    Did("swap") =>
        LET x == last.x
            y == Other(last.x)
            again == swap(Start(DefaultVal), x, y)
        IN /\ \A a \in {x, y} :
                  LET b == Other(a)
                  IN /\ heap[a] = last.heap0[b]
                     /\ (arr[a].data = 0) = (last.arr0[b].data = 0)
                     /\ arr[a].nUsed = last.arr0[b].nUsed
                     /\ arr[a].nAllocated = last.arr0[b].nAllocated
           /\ last.ctors = 0 /\ last.dtors = 0
           /\ last.allocs = 0 /\ last.frees = 0
           /\ RenamedArr(again) = last.arr0
           /\ RenamedHeap(again) = last.heap0

C18_Witness ==
    /\ Did("swap") /\ last.x = 1
    /\ last.arr0[1].nUsed = 2 /\ last.arr0[2].nUsed = 0
    /\ last.arr0[2].nAllocated = 1
    /\ heap[2] = <<1, 2>> /\ heap[1] = <<Raw>>
    /\ arr[1].nUsed = 0 /\ arr[1].nAllocated = 1 /\ arr[2].nAllocated = 2

\* C19: resize(sz) and resize(sz,initVal) on an array holding S: with
\* sz = size() nothing changes; with sz < size() the array holds the first sz
\* elements of S in the same buffer, the others having been destructed; with
\* sz > size() it holds S followed by sz - size() default (initVal) elements,
\* in the same buffer if capacity() >= sz and in one of exactly sz otherwise.
C19_Resize ==
    Did("resize") \/ Did("resize_fill") =>
        LET k == Len(Elems0)
            sz == last.n
            fill == IF last.op = "resize" THEN DefaultVal ELSE last.v
        IN /\ Post.nUsed = sz
           /\ sz = k => /\ arr = last.arr0 /\ heap = last.heap0
                        /\ last.ctors = 0 /\ last.dtors = 0
                        /\ last.allocs = 0 /\ last.frees = 0
           /\ sz < k => /\ Elems = SubSeq(Elems0, 1, sz)
                        /\ last.dtors = k - sz /\ last.ctors = 0
                        /\ SameBuffer
                        /\ Intact(last.x)
           /\ sz > k => /\ Elems = Elems0 \o [i \in 1..(sz - k) |-> fill]
                        /\ Intact(last.x)
                        /\ IF Pre.nAllocated >= sz
                           THEN SameBuffer /\ last.ctors = sz - k
                           ELSE /\ Post.nAllocated = sz
                                /\ last.allocs = 1
                                /\ last.ctors = sz

C19_Witness ==
    /\ Did("resize_fill") /\ last.n = 3 /\ last.v = 2
    /\ Elems0 = <<1>> /\ Pre.nAllocated = 2
    /\ Elems = <<1, 2, 2>> /\ Post.nAllocated = 3


\* C20: front(), back() and pop_back() on an empty array fail with
\* EmptyContainerAccess and leave the array as it was; pop_back() on a
\* non-empty array destructs the last element and nothing else, leaving the
\* other elements in the same buffer with size() one less.
C20_EmptyAccess ==
    /\ last.op \in {"front", "back", "pop_back"} =>
           (Pre.nUsed = 0 =>
                /\ last.res = "EmptyContainerAccess"
                /\ arr = last.arr0
                /\ heap = last.heap0)
    /\ Did("pop_back") /\ Pre.nUsed > 0 =>
           /\ Elems = SubSeq(Elems0, 1, Len(Elems0) - 1)
           /\ Post.nUsed = Pre.nUsed - 1
           /\ last.dtors = 1 /\ last.ctors = 0
           /\ SameBuffer
           /\ Intact(last.x)


\* C21: at(i) fails with OutOfRange for every i outside [0, size()), in
\* either build and on an empty array too, without reading any slot, and
\* returns the element at position i otherwise; the array is as it was.
C21_At ==
    last.op = "at" =>
        /\ arr = last.arr0 /\ heap = last.heap0
        /\ ~last.garbage /\ ~last.oob /\ ~last.deadAccess
        /\ last.ctors = 0 /\ last.dtors = 0
        /\ IF last.p < Pre.nUsed
           THEN last.res = "ok" /\ last.ret = Elems0[last.p + 1]
           ELSE last.res = "OutOfRange"

C21_Witness ==
    /\ last.op = "at" /\ ~debug /\ last.res = "OutOfRange"
    /\ last.p = 2 /\ Elems0 = <<1, 2>> /\ Pre.nAllocated = 4

\* Three appends, as the caller of push_back makes them one after another.
ThreeAppends(m, x, vs) ==
    push_back(push_back(push_back(m, x, vs[1]), x, vs[2]), x, vs[3])

\* A new empty array with capacity c in the place of array x: x is
\* destroyed, constructed again and given its capacity by reserve(c).
FreshWithCapacity(m, x, c) == reserve(ctor_default(dtor(m, x), x), x, c)

\* C22: clear() leaves size() == 0, has destructed each former element
\* exactly once and keeps capacity and buffer, every slot of it free; three
\* appends then give the size (3), contents and capacity that the same three
\* appends give on a new empty array of that capacity.
C22_Clear ==
    Did("clear") =>
        /\ Post.nUsed = 0
        /\ last.dtors = Pre.nUsed /\ ~last.deadDtor
        /\ last.ctors = 0
        /\ SameBuffer /\ Post.data = Pre.data
        /\ Intact(last.x)
        /\ \A vs \in [1..3 -> Vals] :
               LET here == ThreeAppends(Start(DefaultVal), last.x, vs)
                   fresh == ThreeAppends(
                                FreshWithCapacity(Start(DefaultVal), last.x,
                                                  Pre.nAllocated),
                                last.x, vs)
               IN /\ Ok(here) /\ Ok(fresh)
                  /\ here.arr[last.x].nUsed = 3
                  /\ fresh.arr[last.x].nUsed = 3
                  /\ Contents(here.heap, here.arr[last.x]) = vs
                  /\ Contents(fresh.heap, fresh.arr[last.x]) = vs
                  /\ here.arr[last.x].nAllocated
                         = fresh.arr[last.x].nAllocated

C22_Witness ==
    /\ Did("clear") /\ Elems0 = <<1, 2>> /\ Pre.nAllocated = 2
    /\ Post.nUsed = 0 /\ Post.nAllocated = 2 /\ last.dtors = 2

\* The elements an assignment is asked to copy: n copies of the value, the
\* external sequence, the elements [first, last1) of the array itself, the
\* other array's elements, or the array's own.
AssignOps == {"assign_fill", "assign_range", "assign_within", "assign_copy",
              "assign_self"}
AssignSource ==
    IF last.op = "assign_fill" THEN [i \in 1..last.n |-> last.v]
    ELSE IF last.op = "assign_range" THEN last.src
    ELSE IF last.op = "assign_within" THEN SubSeq(Elems0, last.p + 1, last.q)
    ELSE IF last.op = "assign_copy"
    THEN Contents(last.heap0, last.arr0[Other(last.x)])
    ELSE Elems0

\* C23: an assignment (assign(n,value), assign(first,last1), operator=) to
\* an array of n elements from a source of m elements destructs n elements,
\* none of them twice, constructs m elements, none over a live one, gets at
\* most one new buffer, and leaves size() == m and the source's elements in
\* order.
C23_Assign ==
    last.op \in AssignOps /\ last.res = "ok" =>
        /\ last.dtors = Pre.nUsed /\ ~last.deadDtor
        /\ last.ctors = Len(AssignSource) /\ ~last.overwrite
        /\ last.allocs <= 1 /\ last.frees <= 1
        /\ Post.nUsed = Len(AssignSource)
        /\ Elems = AssignSource

\* The calls that add last.n elements to the array.
Adding == Appends \cup {"insert", "insert_fill", "insert_range"}

\* C24: an append or insert of n >= 1 elements to an array whose capacity c
\* is less than size() + n gives it the capacity
\* max(c + n, min(2c, max_size()), min(max_size(), 4)), which lies in
\* [c + n, max_size()], if c + n <= max_size(); otherwise it fails with
\* SizeLimitExceeded, in either build, and leaves the array as it was.
C24_GrowthPolicy ==
    LET n == last.n
        c == Pre.nAllocated
    IN last.op \in Adding /\ n >= 1 /\ Pre.nUsed + n > c =>
           IF c + n <= max_size
           THEN /\ last.res = "ok"
                /\ Post.nAllocated
                       = Max(Max(c + n, Min(2 * c, max_size)),
                             Min(max_size, 4))
                /\ Post.nAllocated \in (c + n)..max_size
                /\ last.allocs = 1
           ELSE /\ last.res = "SizeLimitExceeded"
                /\ arr = last.arr0
                /\ heap = last.heap0

\* C25: insert(p,n,value) and insert(p,first,last1) of n elements with
\* size() + n > max_size() fail with SizeLimitExceeded and leave the array as
\* it was, whether or not size() + n wraps in the size type and whether or
\* not capacity() >= size() + n.
C25_InsertCountValidated ==
    /\ last.op \in {"insert_fill", "insert_range"}
    /\ Pre.nUsed + last.n > max_size
    => /\ last.res = "SizeLimitExceeded"
       /\ arr = last.arr0
       /\ heap = last.heap0

\* The call that has just returned, made once more.
AssignedAgain ==
    IF last.op = "assign_fill"
    THEN assign_fill(Start(DefaultVal), last.x, last.n, last.v)
    ELSE IF last.op = "assign_range"
    THEN assign_range(Start(DefaultVal), last.x, last.src)
    ELSE assign_copy(Start(DefaultVal), last.x, Other(last.x))

Sized == {"ctor_n", "ctor_fill", "ctor_range", "ctor_copy", "assign_fill",
          "assign_range", "assign_copy"}

\* C27: after calls that have all returned without error every array has a
\* null buffer pointer exactly if its capacity() is 0, and size() == 0 if the
\* pointer is null; and a default-constructed array and one constructed or
\* assigned with zero elements own no buffer.
C27_NullBuffer ==
    /\ last.res = "ok" =>
           \A x \in Arrays :
               arr[x].alive =>
                   /\ (arr[x].data = 0) <=> (arr[x].nAllocated = 0)
                   /\ arr[x].data = 0 => arr[x].nUsed = 0
    /\ Did("ctor_default") \/ (last.op \in Sized /\ last.res = "ok"
                               /\ last.n = 0)
       => /\ Post.data = 0
          /\ Post.nAllocated = 0
          /\ heap[last.x] = <<>>

\* C28: push_back(value) and insert(p,value) with value a reference to an
\* element of the same array add, at the end or at p, a copy of the value
\* that element had when the call was made, with or without a reallocation
\* or a shift of elements, and read no slot that holds no element and no
\* buffer that has been freed.  (last.p is where the copy goes, last.v the
\* value of the element referred to.)
C28_ValueFromSameArray ==
    last.op \in {"push_back_within", "insert_within"} =>
        /\ last.res = "ok"
        /\ ~last.garbage /\ ~last.deadAccess /\ ~last.oob
        /\ Elems = SubSeq(Elems0, 1, last.p) \o <<last.v>>
                       \o SubSeq(Elems0, last.p + 1, Len(Elems0))

====
